---- MODULE Spec2Model ----
(***************************************************************************)
(* Model of the AI news crawler (src/unnamed/part_000, "AI News            *)
(* Crawler.py"): the orchestrator AINewsCrawler.run / process_article,     *)
(* the DuplicateChecker with its JSON cache file, the FileManager and the  *)
(* ContentDownloader retry loop.                                           *)
(*                                                                         *)
(* Strings are sequences of one-character strings.  Text whose wording is  *)
(* irrelevant to control flow is represented by its length.                *)
(***************************************************************************)
EXTENDS Integers, Sequences, FiniteSets, TLC

(* ------------------------------ bounds --------------------------------- *)
NumSources == 2        \* number of configured rss_sources
MaxFeedLen == 2        \* longest article list parse_feed returns
MaxArticlesCfg == 2    \* largest configured crawler.max_articles
MaxRuns == 2           \* process starts (first run + restarts)
MaxTitleLen == 1       \* longest title handed to the DuplicateChecker API
MaxLinkLen == 2        \* longest link handed to the DuplicateChecker API
MaxRetries == 3        \* largest configured ContentDownloader.retries

(* -------------------------- program constants -------------------------- *)
RawContentMin == 200   \* raw_content shorter than this is downloaded instead
SummaryMinLen == 50    \* generate_summary refuses content shorter than this

VARIABLES
    pc,            \* position of the main thread
    running,       \* AINewsCrawler._running
    stats,         \* AINewsCrawler.stats
    maxArticles,   \* crawler_config['max_articles']
    cache,         \* DuplicateChecker.cache (in memory)
    cacheFile,     \* crawler_cache.json on disk
    srcIdx,        \* index of the source the run loop is at
    articles,      \* list returned by parse_feed for the current source
    artIdx,        \* index of the article the inner loop is at
    content,       \* len(article['content']) of the current article, -1 before resolution
    aiSummary,     \* kind of ai_summary of the current article
    entry,         \* snapshot taken when process_article is called
    trace,         \* steps of process_article executed for the current article
    exit,          \* return statement process_article left through
    loadedKind,    \* kind of cache file seen by the last load_cache
    marksReturned, \* keys whose mark_as_processed has returned (all runs)
    runs,          \* number of process starts so far
    pace,          \* pacing calls made since the last article / the last parse_feed
    feedOutcome,   \* how the last parse_feed call ended
    parsed,        \* the parse_feed calls of the run, in order: source index, outcome
    dupPair,       \* DuplicateChecker API spec: the two articles the caller holds
    dupArg,        \* DuplicateChecker API spec: argument of the last call
    dupOp,         \* DuplicateChecker API spec: last call
    dupResult,     \* DuplicateChecker API spec: result of the last is_duplicate
    dupPrev,       \* DuplicateChecker API spec: {result of the call before} when it
                   \* was is_duplicate on the same article, {} otherwise
    dupMarked,     \* DuplicateChecker API spec: articles marked so far
    dlRetries,     \* ContentDownloader.retries
    dlScript,      \* what the URL does to the 1st, 2nd, ... request made to it
    dlPc,          \* position inside download_content
    dlAttempt,     \* loop variable attempt
    dlGets,        \* number of session.get calls made so far
    dlVerify,      \* certificate verification in force for each session.get made
    dlSleeps,      \* the time.sleep calls made so far: after which attempt, how long
    dlResult,      \* value returned by download_content
    rlMin,         \* RateLimiter.min_interval
    rlLast,        \* RateLimiter.last_called
    rlClock,       \* time.time()
    rlPc,          \* position inside RateLimiter.wait
    rlCur,         \* local current_time of the wait call in progress
    rlSlept,       \* for each wait call started: whether it called time.sleep
    rlReturns,     \* for each wait call finished: the clock reading it ended on
    fdTz,          \* the host's local UTC offset, in ticks
    fdDays,        \* RSSParser.days_back
    fdEntries,     \* feed.entries of the feed being parsed
    fdIdx,         \* index of the entry the loop of parse_feed is at
    fdResult,      \* local articles of parse_feed, then its return value
    fdPc,          \* position inside parse_feed
    fdRaised,      \* whether the except clause of parse_feed was taken
    tgKw,          \* number of keywords of keywords_map found in the article's text
    tgTags,        \* article['tags']
    tgFront,       \* the tags written into the front matter
    tgPc,          \* position between _generate_tags and generate_front_matter
    exPage,        \* the elements of the page the generic selectors match, in document order
    exSite,        \* whether the URL has a site-specific rule, and whether it found its element
    exSel,         \* index of the selector the loop of _extract_main_content is at
    exChosen,      \* main_content
    exPc,          \* position inside _extract_main_content
    twFile,        \* two crawlers on one cache file: crawler_cache.json
    twMem,         \* two crawlers: DuplicateChecker.cache of each process
    twPc,          \* two crawlers: position of each process
    twPending,     \* two crawlers: argument of the mark_as_processed in progress
    twMarks,       \* two crawlers: number of mark_as_processed calls of each process
    twDirty,       \* two crawlers: the other process wrote while this one had the file open
    twReturned,    \* two crawlers: keys whose mark_as_processed has returned
    clDoc,         \* clean_html: the elements of the parsed document, in order
    clOut,         \* clean_html: the text being built
    clPc,          \* clean_html: position inside the function
    dtEntry,       \* date parsing: the date fields of the feed entry
    dtResult,      \* date parsing: the value returned
    dtPc,          \* date parsing: which function has returned, if any
    wkPc,          \* weekly report: position in the script
    wkSrc,         \* weekly report: index into RSS_SOURCES
    wkArticles,    \* weekly report: the articles fetched, by source
    wkReport,      \* weekly report: what generate_weekly_report returned
    wkFile         \* weekly report: the post file

mainVars == <<pc, running, stats, maxArticles, cache, cacheFile, srcIdx, articles,
              artIdx, content, aiSummary, entry, trace, exit, loadedKind,
              marksReturned, runs, pace, feedOutcome, parsed>>
dupVars == <<dupPair, dupArg, dupOp, dupResult, dupPrev, dupMarked>>
dlVars == <<dlRetries, dlScript, dlPc, dlAttempt, dlGets, dlVerify, dlSleeps, dlResult>>
rlVars == <<rlMin, rlLast, rlClock, rlPc, rlCur, rlSlept, rlReturns>>
feedVars == <<fdTz, fdDays, fdEntries, fdIdx, fdResult, fdPc, fdRaised>>
tagVars == <<tgKw, tgTags, tgFront, tgPc>>
libVars == <<rlVars, feedVars, tagVars>>
exVars == <<exPage, exSite, exSel, exChosen, exPc>>
twVars == <<twFile, twMem, twPc, twPending, twMarks, twDirty, twReturned>>
clVars == <<clDoc, clOut, clPc>>
dtVars == <<dtEntry, dtResult, dtPc>>
wkVars == <<wkPc, wkSrc, wkArticles, wkReport, wkFile>>
unitVars == <<exVars, twVars, clVars, dtVars, wkVars>>
vars == <<mainVars, dupVars, dlVars, libVars, unitVars>>

(* ------------------------------ articles ------------------------------- *)
\* raw_content of a feed entry: its length and the length of the text
\* TextNormalizer.clean_html extracts from it.
RawAbsent == [len |-> 0, textLen |-> 0]
RawShort == [len |-> 150, textLen |-> 100]
RawMarkupOnly == [len |-> 250, textLen |-> 0]
RawLong == [len |-> 400, textLen |-> 300]

MainArticles ==
    { [title |-> <<"a">>, link |-> <<"x">>, raw |-> RawShort],
      [title |-> <<"a">>, link |-> <<"x", "?", "q">>, raw |-> RawLong],
      [title |-> <<"b">>, link |-> <<"x", "#">>, raw |-> RawMarkupOnly] }

RECURSIVE SeqsUpTo(_, _)
SeqsUpTo(S, n) ==
    IF n = 0 THEN {<<>>}
    ELSE LET shorter == SeqsUpTo(S, n - 1)
         IN shorter \cup {Append(s, x) : s \in {t \in shorter : Len(t) = n - 1}, x \in S}

Feeds == SeqsUpTo(MainArticles, MaxFeedLen)

\* lengths download_content can return: "", a short text, a long text
DownloadLens == {0, 30, 300}

(* --------------------------- DuplicateChecker -------------------------- *)
EmptyCache == [k \in {} |-> [title |-> <<>>, link |-> <<>>]]

FileMissing == [kind |-> "missing", data |-> EmptyCache]
FileCorrupt == [kind |-> "corrupt", data |-> EmptyCache]
FileOk(c) == [kind |-> "ok", data |-> c]

\* re.sub(r'[?#].*$', '', link): drop everything from the first '?' or '#'
CutAt(link) ==
    LET hits == {i \in 1..Len(link) : link[i] \in {"?", "#"}}
    IN IF hits = {} THEN Len(link) + 1
       ELSE CHOOSE i \in hits : \A j \in hits : i <= j

\* variant: only the query string is cut, r'[?].*$'
clean_link_query_only(link) ==
    LET hits == {i \in 1..Len(link) : link[i] = "?"}
    IN IF hits = {} THEN link
       ELSE SubSeq(link, 1, (CHOOSE i \in hits : \A j \in hits : i <= j) - 1)

clean_link(link) == SubSeq(link, 1, CutAt(link) - 1)

\* hashlib.md5(...).hexdigest(), idealised as collision free: the digest is
\* a tagged copy of the identifier it was computed from.
Md5(identifier) == <<"md5", identifier>>

get_article_hash(article) ==
    Md5(article.title \o <<"|">> \o clean_link(article.link))

is_duplicate(c, article) == get_article_hash(article) \in DOMAIN c

CacheRecord(article) == [title |-> article.title, link |-> article.link]

\* self.cache[article_hash] = {...}
CacheInsert(c, article) ==
    LET h == get_article_hash(article)
    IN [k \in DOMAIN c \cup {h} |-> IF k = h THEN CacheRecord(article) ELSE c[k]]

\* variant: no try/except around json.load
load_cache_uncaught(file) ==
    IF file.kind = "corrupt"
    THEN [raised |-> TRUE, cache |-> EmptyCache]
    ELSE [raised |-> FALSE, cache |-> file.data]

\* load_cache: a missing file, or any exception while reading it, gives {}
load_cache(file) ==
    IF file.kind = "ok"
    THEN [raised |-> FALSE, cache |-> file.data]
    ELSE [raised |-> FALSE, cache |-> EmptyCache]

(* ------------------------------ main spec ------------------------------ *)
ZeroStats == [total_fetched |-> 0, downloaded |-> 0, summarized |-> 0,
              saved |-> 0, skipped_duplicate |-> 0, skipped_error |-> 0]

NoEntry == [started |-> FALSE, stats |-> ZeroStats, cache |-> EmptyCache,
            file |-> FileMissing]

CurArticle == articles[artIdx]

InitialFiles ==
    { FileMissing, FileCorrupt, FileOk(EmptyCache),
      FileOk(CacheInsert(EmptyCache, [title |-> <<"a">>, link |-> <<"x">>])) }

\* values of the volatile state of a process that does not exist (yet)
\* no pacing call made and no article processed yet
NoPace == [art |-> {}, src |-> {}, arts |-> FALSE, any |-> FALSE]

Volatile ==
    /\ running = TRUE
    /\ stats = ZeroStats
    /\ cache = EmptyCache
    /\ srcIdx = 1
    /\ articles = <<>>
    /\ artIdx = 1
    /\ content = -1
    /\ aiSummary = "none"
    /\ entry = NoEntry
    /\ trace = {}
    /\ exit = "none"
    /\ loadedKind = "none"
    /\ pace = NoPace
    /\ feedOutcome = "none"
    /\ parsed = <<>>

NoArticle == [title |-> <<>>, link |-> <<>>]

DupIdle ==
    /\ dupPair = <<NoArticle, NoArticle>>
    /\ dupArg = NoArticle
    /\ dupOp = "none"
    /\ dupResult = FALSE
    /\ dupPrev = {}
    /\ dupMarked = {}

DlIdle ==
    /\ dlRetries = 0
    /\ dlScript = <<>>
    /\ dlPc = "idle"
    /\ dlAttempt = 0
    /\ dlGets = 0
    /\ dlVerify = <<>>
    /\ dlSleeps = <<>>
    /\ dlResult = "none"

RlIdle ==
    /\ rlMin = 0
    /\ rlLast = 0
    /\ rlClock = 0
    /\ rlPc = "off"
    /\ rlCur = 0
    /\ rlSlept = <<>>
    /\ rlReturns = <<>>

FeedIdle ==
    /\ fdTz = 0
    /\ fdDays = 0
    /\ fdEntries = <<>>
    /\ fdIdx = 0
    /\ fdResult = <<>>
    /\ fdPc = "off"
    /\ fdRaised = FALSE

TagIdle ==
    /\ tgKw = 0
    /\ tgTags = <<>>
    /\ tgFront = <<>>
    /\ tgPc = "off"

NoElement == [kind |-> "none", idx |-> 0]

ExIdle ==
    /\ exPage = <<>>
    /\ exSite = "generic"
    /\ exSel = 0
    /\ exChosen = NoElement
    /\ exPc = "off"

Instances == {1, 2}

TwIdle ==
    /\ twFile = FileMissing
    /\ twMem = [i \in Instances |-> EmptyCache]
    /\ twPc = [i \in Instances |-> "off"]
    /\ twPending = [i \in Instances |-> NoArticle]
    /\ twMarks = [i \in Instances |-> 0]
    /\ twDirty = [i \in Instances |-> FALSE]
    /\ twReturned = {}

ClIdle ==
    /\ clDoc = <<>>
    /\ clOut = <<>>
    /\ clPc = "off"

DtNone == [kind |-> "none", wall |-> 0, off |-> 0]

DtIdle ==
    /\ dtEntry = [parsed |-> DtNone, fmt |-> "absent", wall |-> 0, off |-> 0]
    /\ dtResult = DtNone
    /\ dtPc = "off"

NoReport == [kind |-> "none", text |-> "none"]
NoFile == [kind |-> "absent", text |-> "none"]

WkIdle ==
    /\ wkPc = "off"
    /\ wkSrc = 0
    /\ wkArticles = <<>>
    /\ wkReport = NoReport
    /\ wkFile = NoFile

UnitIdle == ExIdle /\ TwIdle /\ ClIdle /\ DtIdle /\ WkIdle

LibIdle == RlIdle /\ FeedIdle /\ TagIdle

\* the volatile state is gone with the process
ResetVolatile ==
    /\ running' = TRUE
    /\ stats' = ZeroStats
    /\ cache' = EmptyCache
    /\ srcIdx' = 1
    /\ articles' = <<>>
    /\ artIdx' = 1
    /\ content' = -1
    /\ aiSummary' = "none"
    /\ entry' = NoEntry
    /\ trace' = {}
    /\ exit' = "none"
    /\ loadedKind' = "none"
    /\ pace' = NoPace
    /\ feedOutcome' = "none"
    /\ parsed' = <<>>

InitMain ==
    /\ pc = "init"
    /\ Volatile
    /\ maxArticles \in 0..MaxArticlesCfg
    /\ cacheFile \in InitialFiles
    /\ marksReturned = {}
    /\ runs = 1

Init == InitMain /\ DupIdle /\ DlIdle /\ LibIdle /\ UnitIdle

Inc(s, field) == [s EXCEPT ![field] = @ + 1]

perArticle == <<content, aiSummary, entry, trace, exit>>
loopVars == <<srcIdx, articles, artIdx>>
storeVars == <<cache, cacheFile, marksReturned>>
procVars == <<maxArticles, loadedKind, runs>>
histVars == <<pace, feedOutcome, parsed>>

\* AINewsCrawler.__init__: builds the components (DuplicateChecker loads the
\* cache file), zeroes the statistics and sets _running.
Construct ==
    /\ pc = "init"
    /\ LET r == load_cache(cacheFile)
       IN /\ pc' = IF r.raised THEN "fatal" ELSE "run_start"
          /\ cache' = r.cache
    /\ loadedKind' = cacheFile.kind
    /\ running' = TRUE
    /\ stats' = ZeroStats
    /\ UNCHANGED <<maxArticles, cacheFile, loopVars, perArticle, marksReturned, runs, histVars>>

\* run(): banner and get_rss_sources(), before the loop over the sources
RunStart ==
    /\ pc = "run_start"
    /\ pc' = "src_check"
    /\ srcIdx' = 1
    /\ UNCHANGED <<running, stats, storeVars, procVars, histVars, articles, artIdx, perArticle>>

\* variant: the flag is never consulted
Cancelled_ignored(r) == FALSE

\* `if not self._running`
Cancelled(r) == ~r

\* variant: off by one, `>` for `>=`
ReachedLimit_strict(saved, max) == saved > max

\* `if self.stats['saved'] >= self.crawler_config['max_articles']`
ReachedLimit(saved, max) == saved >= max

\* head of `for source in rss_sources` with its two break conditions
SrcCheck ==
    /\ pc = "src_check"
    /\ pc' = IF srcIdx > NumSources \/ Cancelled(running)
                \/ ReachedLimit(stats.saved, maxArticles)
             THEN "report" ELSE "parse"
    /\ UNCHANGED <<running, stats, storeVars, procVars, histVars, loopVars, perArticle>>

\* how the body of parse_feed can go: it went through the entries, it found
\* no entries (`if not feed.entries`), something in it raised, or the feed
\* server accepted the connection and never answered: feedparser.parse is
\* called without a timeout (self.timeout is stored and never used, and no
\* default socket timeout is set), so the call does not return
FeedOutcomes == {"entries", "no_entries", "exception", "no_answer"}

\* variant: no try/except around the body
parse_feed_uncaught(outcome, feed) ==
    [returns |-> outcome # "no_answer",
     raised |-> outcome = "exception",
     articles |-> IF outcome = "entries" THEN feed ELSE <<>>]

\* parse_feed for a source whose entries would yield feed: the whole body is
\* inside try/except Exception, which returns []
parse_feed(outcome, feed) ==
    [returns |-> outcome # "no_answer",
     raised |-> FALSE,
     articles |-> IF outcome = "entries" THEN feed ELSE <<>>]

\* variant: the articles of the feed are not counted
AddFetched_uncounted(s, n) == s

\* self.stats['total_fetched'] += len(articles)
AddFetched(s, n) == [s EXCEPT !.total_fetched = @ + n]

\* articles = parse_feed(...); total_fetched += len(articles)
ParseFeed ==
    /\ pc = "parse"
    /\ pace' = [pace EXCEPT !.src = {}, !.arts = FALSE]
    /\ \E outcome \in FeedOutcomes, feed \in Feeds :
          LET r == parse_feed(outcome, feed)
          IN /\ feedOutcome' = outcome
             /\ parsed' = Append(parsed, [src |-> srcIdx, outcome |-> outcome])
             /\ IF ~r.returns
                THEN /\ pc' = "parse_blocked"
                     /\ UNCHANGED <<articles, stats>>
                ELSE IF r.raised
                THEN /\ pc' = "fatal"
                     /\ UNCHANGED <<articles, stats>>
                ELSE /\ pc' = "art_check"
                     /\ articles' = r.articles
                     /\ stats' = AddFetched(stats, Len(r.articles))
    /\ artIdx' = 1
    /\ UNCHANGED <<running, storeVars, procVars, srcIdx, perArticle>>

\* head of `for article in articles` with its two break conditions; when
\* neither holds process_article(article) is called
ArtCheck ==
    /\ pc = "art_check"
    /\ IF artIdx > Len(articles) \/ Cancelled(running)
          \/ ReachedLimit(stats.saved, maxArticles)
       THEN /\ pc' = "src_sleep"
            /\ UNCHANGED perArticle
       ELSE /\ pc' = "p_entry"
            /\ entry' = [started |-> FALSE, stats |-> stats, cache |-> cache,
                         file |-> cacheFile]
            /\ content' = -1
            /\ aiSummary' = "none"
            /\ trace' = {}
            /\ exit' = "none"
    /\ UNCHANGED <<running, stats, storeVars, procVars, histVars, loopVars>>

\* process_article: `if not self._running: return False`
PEntry ==
    /\ pc = "p_entry"
    /\ IF Cancelled(running)
       THEN /\ pc' = "art_wait"
            /\ exit' = "cancelled"
            /\ UNCHANGED entry
       ELSE /\ pc' = "p_dup"
            /\ entry' = [entry EXCEPT !.started = TRUE]
            /\ UNCHANGED exit
    /\ UNCHANGED <<running, stats, storeVars, procVars, histVars, loopVars, content, aiSummary, trace>>

\* 1. duplicate check
PDup ==
    /\ pc = "p_dup"
    /\ trace' = trace \cup {"dup"}
    /\ IF is_duplicate(cache, CurArticle)
       THEN /\ stats' = Inc(stats, "skipped_duplicate")
            /\ exit' = "duplicate"
            /\ pc' = "art_wait"
       ELSE /\ pc' = "p_content"
            /\ UNCHANGED <<stats, exit>>
    /\ UNCHANGED <<running, storeVars, procVars, histVars, loopVars, content, aiSummary, entry>>

\* `not article.get('raw_content') or len(article['raw_content']) < 200`
NeedsDownload(raw) == raw.len = 0 \/ raw.len < RawContentMin

\* TextNormalizer.clean_html applied to raw_content
clean_html_len(raw) == raw.textLen

\* variant: the emptiness test never fires
NoContent_skipped(len) == len < 0

\* `if not article['content']`
NoContent(len) == len = 0

\* 2. content resolution: download (followed by rate_limiter.wait()) or the
\* cleaned raw_content; an empty result is skipped
PContent ==
    /\ pc = "p_content"
    /\ trace' = trace \cup {"content"}
    /\ pace' = IF NeedsDownload(CurArticle.raw)
               THEN [pace EXCEPT !.src = @ \cup {"wait"}]
               ELSE pace
    /\ \E len \in IF NeedsDownload(CurArticle.raw) THEN DownloadLens
                  ELSE {clean_html_len(CurArticle.raw)} :
          /\ content' = len
          /\ IF NoContent(len)
             THEN /\ stats' = Inc(stats, "skipped_error")
                  /\ exit' = "no_content"
                  /\ pc' = "art_wait"
             ELSE /\ stats' = Inc(stats, "downloaded")
                  /\ pc' = "p_summ"
                  /\ UNCHANGED exit
    /\ UNCHANGED <<running, storeVars, procVars, feedOutcome, parsed, loopVars, aiSummary, entry>>

\* kinds of text generate_summary returns for content of the given length
SummaryResults(len) ==
    IF len < SummaryMinLen THEN {"too_short_msg"}
    ELSE {"text", "empty", "failed_msg"}

\* `not ai_summary or "失败" in ai_summary`
SummaryFailed(kind) == kind \in {"empty", "failed_msg"}

\* 3. generate_summary, fallback to the feed summary cut to 200 characters
PSumm ==
    /\ pc = "p_summ"
    /\ trace' = trace \cup {"summ"}
    /\ \E kind \in SummaryResults(content) :
          aiSummary' = IF SummaryFailed(kind) THEN "feed_summary" ELSE kind
    /\ stats' = Inc(stats, "summarized")
    /\ pc' = "p_tags"
    /\ UNCHANGED <<running, storeVars, procVars, histVars, loopVars, content, entry, exit>>

\* 4. article['tags'] = self._generate_tags(article, ai_summary)
PTags ==
    /\ pc = "p_tags"
    /\ trace' = trace \cup {"tags"}
    /\ pc' = "p_render"
    /\ UNCHANGED <<running, stats, storeVars, procVars, histVars, loopVars, content, aiSummary,
                   entry, exit>>

\* 5. generate_markdown_content and generate_filename inside the try block
PRender ==
    /\ pc = "p_render"
    /\ trace' = trace \cup {"render"}
    /\ \E raised \in BOOLEAN :
          IF raised
          THEN /\ stats' = Inc(stats, "skipped_error")
               /\ exit' = "render_raised"
               /\ pc' = "art_wait"
          ELSE /\ pc' = "p_save"
               /\ UNCHANGED <<stats, exit>>
    /\ UNCHANGED <<running, storeVars, procVars, histVars, loopVars, content, aiSummary, entry>>

\* save_markdown_file: the path, None after an IOError, or another exception
SaveOutcomes == {"path", "none", "raised"}

\* variant: any returned value, None included, counts as saved
SaveSucceeded_any(outcome) == outcome \in {"path", "none"}

\* `if saved_path:`
SaveSucceeded(outcome) == outcome = "path"

\* saved_path = save_markdown_file(...) and the branches on its result
PSave ==
    /\ pc = "p_save"
    /\ \E outcome \in SaveOutcomes :
        /\ trace' = trace \cup {"save", outcome}
        /\ IF outcome = "raised"
          THEN /\ stats' = Inc(stats, "skipped_error")
               /\ exit' = "save_raised"
               /\ pc' = "art_wait"
          ELSE IF SaveSucceeded(outcome)
          THEN /\ pc' = "m_insert"
               /\ UNCHANGED <<stats, exit>>
          ELSE /\ exit' = "save_none"
               /\ pc' = "art_wait"
               /\ UNCHANGED stats
    /\ UNCHANGED <<running, storeVars, procVars, histVars, loopVars, content, aiSummary, entry>>

\* mark_as_processed: self.cache[article_hash] = {...}
MInsert ==
    /\ pc = "m_insert"
    /\ trace' = trace \cup {"mark"}
    /\ cache' = CacheInsert(cache, CurArticle)
    /\ pc' = "m_open"
    /\ UNCHANGED <<running, stats, cacheFile, marksReturned, procVars, histVars, loopVars,
                   content, aiSummary, entry, exit>>

\* save_cache: open(self.cache_file, 'w') truncates the file; an IOError is
\* logged and save_cache, then mark_as_processed, return
MOpen ==
    /\ pc = "m_open"
    /\ \E ioError \in BOOLEAN :
          IF ioError
          THEN /\ pc' = "p_count"
               /\ marksReturned' = marksReturned \cup {get_article_hash(CurArticle)}
               /\ UNCHANGED cacheFile
          ELSE /\ pc' = "m_dump"
               /\ cacheFile' = FileCorrupt
               /\ UNCHANGED marksReturned
    /\ UNCHANGED <<running, stats, cache, procVars, histVars, loopVars, perArticle>>

\* save_cache: json.dump into the open file and close; an IOError leaves a
\* partial file; either way mark_as_processed returns
MDump ==
    /\ pc = "m_dump"
    /\ \E ioError \in BOOLEAN :
          cacheFile' = IF ioError THEN FileCorrupt ELSE FileOk(cache)
    /\ marksReturned' = marksReturned \cup {get_article_hash(CurArticle)}
    /\ pc' = "p_count"
    /\ UNCHANGED <<running, stats, cache, procVars, histVars, loopVars, perArticle>>

\* self.stats['saved'] += 1; return True
PCount ==
    /\ pc = "p_count"
    /\ stats' = Inc(stats, "saved")
    /\ exit' = "saved"
    /\ pc' = "art_wait"
    /\ UNCHANGED <<running, storeVars, procVars, histVars, loopVars, content, aiSummary, entry, trace>>

\* self.rate_limiter.wait() after process_article has returned
AfterArticle == {"wait"}

\* time.sleep(2) after the article loop of a source
AfterSource == {"sleep"}

\* self.rate_limiter.wait() after process_article returned (its locals and
\* its discarded return value are gone); next article
ArtWait ==
    /\ pc = "art_wait"
    /\ pace' = [art |-> AfterArticle, src |-> pace.src \cup AfterArticle,
                arts |-> TRUE, any |-> TRUE]
    /\ artIdx' = artIdx + 1
    /\ pc' = "art_check"
    /\ content' = -1
    /\ aiSummary' = "none"
    /\ entry' = NoEntry
    /\ trace' = {}
    /\ exit' = "none"
    /\ UNCHANGED <<running, stats, storeVars, procVars, feedOutcome, parsed, srcIdx, articles>>

\* time.sleep(2) after the articles of a source; next source
SrcSleep ==
    /\ pc = "src_sleep"
    /\ srcIdx' = srcIdx + 1
    /\ pc' = "src_check"
    /\ pace' = [pace EXCEPT !.art = @ \cup AfterSource, !.src = @ \cup AfterSource]
    /\ feedOutcome' = "none"
    /\ UNCHANGED <<running, stats, storeVars, procVars, parsed, articles, artIdx, perArticle>>

\* the final statistics block of run()
Report ==
    /\ pc = "report"
    /\ pc' = "done"
    /\ UNCHANGED <<running, stats, storeVars, procVars, histVars, loopVars, perArticle>>

\* _signal_handler, run by the interpreter between two steps of the main thread
Signal ==
    /\ pc \notin {"init", "done", "fatal"}
    /\ running
    /\ running' = FALSE
    /\ UNCHANGED <<pc, stats, storeVars, procVars, histVars, loopVars, perArticle>>

\* the process dies (power loss, SIGKILL); the next process starts from the
\* cache file as it is on disk
Crash ==
    /\ pc \notin {"init", "done", "fatal"}
    /\ runs < MaxRuns
    /\ runs' = runs + 1
    /\ pc' = "init"
    /\ ResetVolatile
    /\ UNCHANGED <<maxArticles, cacheFile, marksReturned>>

\* the crawler is started again after a completed run
NextRun ==
    /\ pc = "done"
    /\ runs < MaxRuns
    /\ runs' = runs + 1
    /\ pc' = "init"
    /\ ResetVolatile
    /\ UNCHANGED <<maxArticles, cacheFile, marksReturned>>

Next ==
    \/ (Construct /\ UNCHANGED <<dupVars, dlVars, libVars, unitVars>>)
    \/ (RunStart /\ UNCHANGED <<dupVars, dlVars, libVars, unitVars>>)
    \/ (SrcCheck /\ UNCHANGED <<dupVars, dlVars, libVars, unitVars>>)
    \/ (ParseFeed /\ UNCHANGED <<dupVars, dlVars, libVars, unitVars>>)
    \/ (ArtCheck /\ UNCHANGED <<dupVars, dlVars, libVars, unitVars>>)
    \/ (PEntry /\ UNCHANGED <<dupVars, dlVars, libVars, unitVars>>)
    \/ (PDup /\ UNCHANGED <<dupVars, dlVars, libVars, unitVars>>)
    \/ (PContent /\ UNCHANGED <<dupVars, dlVars, libVars, unitVars>>)
    \/ (PSumm /\ UNCHANGED <<dupVars, dlVars, libVars, unitVars>>)
    \/ (PTags /\ UNCHANGED <<dupVars, dlVars, libVars, unitVars>>)
    \/ (PRender /\ UNCHANGED <<dupVars, dlVars, libVars, unitVars>>)
    \/ (PSave /\ UNCHANGED <<dupVars, dlVars, libVars, unitVars>>)
    \/ (MInsert /\ UNCHANGED <<dupVars, dlVars, libVars, unitVars>>)
    \/ (MOpen /\ UNCHANGED <<dupVars, dlVars, libVars, unitVars>>)
    \/ (MDump /\ UNCHANGED <<dupVars, dlVars, libVars, unitVars>>)
    \/ (PCount /\ UNCHANGED <<dupVars, dlVars, libVars, unitVars>>)
    \/ (ArtWait /\ UNCHANGED <<dupVars, dlVars, libVars, unitVars>>)
    \/ (SrcSleep /\ UNCHANGED <<dupVars, dlVars, libVars, unitVars>>)
    \/ (Report /\ UNCHANGED <<dupVars, dlVars, libVars, unitVars>>)
    \/ (Signal /\ UNCHANGED <<dupVars, dlVars, libVars, unitVars>>)
    \/ (Crash /\ UNCHANGED <<dupVars, dlVars, libVars, unitVars>>)
    \/ (NextRun /\ UNCHANGED <<dupVars, dlVars, libVars, unitVars>>)

Spec == Init /\ [][Next]_vars

PcValues ==
    {"init", "fatal", "run_start", "src_check", "parse", "parse_blocked", "art_check", "p_entry",
     "p_dup", "p_content", "p_summ", "p_tags", "p_render", "p_save", "m_insert",
     "m_open", "m_dump", "p_count", "art_wait", "src_sleep", "report", "done"}

TypeOK ==
    /\ pc \in PcValues
    /\ running \in BOOLEAN
    /\ maxArticles \in 0..MaxArticlesCfg
    /\ cacheFile.kind \in {"missing", "corrupt", "ok"}
    /\ srcIdx \in 1..(NumSources + 1)
    /\ artIdx \in 1..(MaxFeedLen + 1)
    /\ content \in {-1} \cup DownloadLens \cup {r.textLen : r \in {a.raw : a \in MainArticles}}
    /\ runs \in 1..MaxRuns

(* ------------------- claims about the orchestrator --------------------- *)
ArticlePcs ==
    {"p_entry", "p_dup", "p_content", "p_summ", "p_tags", "p_render", "p_save",
     "m_insert", "m_open", "m_dump", "p_count", "art_wait"}

Delta(field) == stats[field] - entry.stats[field]

\* C1: when process_article, entered with the flag clear, has returned,
\* exactly one of saved / skipped_duplicate / skipped_error went up, by one,
\* and a failed render or save (None returned, or raised) went to skipped_error.
C1_ExactlyOneTerminal ==
    (pc = "art_wait" /\ entry.started) =>
        /\ Delta("saved") \in {0, 1}
        /\ Delta("skipped_duplicate") \in {0, 1}
        /\ Delta("skipped_error") \in {0, 1}
        /\ Delta("saved") + Delta("skipped_duplicate") + Delta("skipped_error") = 1
        /\ (exit \in {"render_raised", "save_none", "save_raised"}
               => Delta("skipped_error") = 1)

\* C2: generate_summary is only ever reached with non-empty content, and an
\* article whose resolved content is empty returns at once through the
\* skipped_error branch, with no summarize, tag, render, save or mark step.
C2_NoEmptySummarize ==
    /\ (pc = "p_summ" \/ "summ" \in trace) => content > 0
    /\ (pc \in ArticlePcs /\ content = 0) =>
          /\ pc = "art_wait"
          /\ exit = "no_content"
          /\ Delta("skipped_error") = 1
          /\ Delta("saved") = 0
          /\ trace = {"dup", "content"}

C2_Witness == pc = "art_wait" /\ content = 0 /\ exit = "no_content"

\* C4: whatever the moment the process died, the store a later process loads
\* holds the key of every article whose mark_as_processed had returned.
C4_CrashDurability ==
    pc \notin {"init", "fatal"} => marksReturned \subseteq DOMAIN cache

\* C5: when mark_as_processed has returned, the cache file holds exactly the
\* in-memory store.
C5_FileHoldsStoreAtReturn ==
    pc = "p_count" => cacheFile = FileOk(cache)

\* C6: during process_article the store, in memory or on disk, differs from
\* what it was at entry only after save_markdown_file returned a path; an
\* article that returns without having been saved leaves both as they were.
C6_MarkOnlyAfterSave ==
    pc \in ArticlePcs =>
        /\ (cache # entry.cache \/ cacheFile # entry.file) => "path" \in trace
        /\ (pc = "art_wait" /\ exit # "saved") =>
               (cache = entry.cache /\ cacheFile = entry.file)

C6_Witness ==
    /\ pc = "art_wait"
    /\ exit = "save_none"
    /\ cache = entry.cache
    /\ cacheFile = entry.file

\* C7: construction never fails, and a missing or corrupt cache file leaves
\* the store empty at the start of run().
C7_LoadNeverRaises ==
    /\ pc # "fatal"
    /\ (pc = "run_start" /\ loadedKind \in {"missing", "corrupt"}) => cache = EmptyCache

C7_Witness == pc = "parse" /\ loadedKind = "corrupt"

\* C8 (as claimed): with the flag set no parse_feed is executed, no article
\* passes the entry of process_article, and an article in flight is not cut
\* short.
C8_NoNewWorkOnceCancelled ==
    [][ /\ ~running => ~(pc = "parse" /\ pc' = "art_check")
        /\ ~running => ~(pc = "p_entry" /\ pc' = "p_dup")
        /\ entry.started => exit' # "cancelled" ]_vars

\* C8 (amended): a check of the flag made after it was set starts nothing:
\* the source loop ends, the article loop ends, process_article returns at
\* its entry; the flag stays set for the rest of the run; an article that
\* passed the entry check is never cut short by the flag.
C8_PolledCancellation ==
    [][ /\ (pc = "src_check" /\ ~running) => pc' \in {"report", "init"}
        /\ (pc = "art_check" /\ ~running) => pc' \in {"src_sleep", "init"}
        /\ (pc = "p_entry" /\ ~running) => pc' \in {"art_wait", "init"}
        /\ (~running /\ pc' # "init") => ~running'
        /\ entry.started => exit' # "cancelled" ]_vars

\* the signal arrived while an article was in flight; the article was saved
\* all the same, and the rest of its feed is left unprocessed
C8_Witness ==
    /\ ~running
    /\ pc = "art_wait"
    /\ entry.started
    /\ exit = "saved"
    /\ artIdx < Len(articles)

\* C9: saved never exceeds max_articles, and once it has reached it no
\* parse_feed and no step of process_article is pending or running.
C9_SaveCeiling ==
    /\ stats.saved <= maxArticles
    /\ stats.saved >= maxArticles =>
          pc \notin {"parse", "parse_blocked", "p_entry", "p_dup", "p_content", "p_summ", "p_tags",
                     "p_render", "p_save", "m_insert", "m_open", "m_dump", "p_count"}

\* the ceiling, not cancellation or exhaustion, ended the run
C9_Witness ==
    /\ pc = "report"
    /\ running
    /\ maxArticles > 0
    /\ stats.saved = maxArticles
    /\ srcIdx <= NumSources

StatFields ==
    {"total_fetched", "downloaded", "summarized", "saved", "skipped_duplicate",
     "skipped_error"}

\* C29: while a crawler lives no counter of its stats goes down, and at every
\* moment saved <= summarized <= downloaded <= total_fetched and
\* saved + skipped_duplicate + skipped_error <= total_fetched.
C29_StatsConsistent ==
    /\ [][pc' # "init" => \A f \in StatFields : stats'[f] >= stats[f]]_vars
    /\ [](/\ stats.saved <= stats.summarized
          /\ stats.summarized <= stats.downloaded
          /\ stats.downloaded <= stats.total_fetched
          /\ stats.saved + stats.skipped_duplicate + stats.skipped_error
                <= stats.total_fetched)

\* of four fetched articles one failed after its summary was made, one was
\* saved and one was skipped as a duplicate
C29_Witness ==
    /\ pc = "art_wait"
    /\ stats.total_fetched = 4
    /\ stats.downloaded = 2
    /\ stats.summarized = 2
    /\ stats.saved = 1
    /\ stats.skipped_duplicate = 1
    /\ stats.skipped_error = 1

(* ------------------ DuplicateChecker driven as an API ------------------ *)
TitleChars == {"a", "|"}
LinkChars == {"x", "|", "?", "#"}

DupArticles ==
    {[title |-> t, link |-> l] : t \in SeqsUpTo(TitleChars, MaxTitleLen),
                                 l \in SeqsUpTo(LinkChars, MaxLinkLen)}

\* what save_cache can leave on disk: the file as it was (open failed), a
\* truncated or partial file (write failed), or the whole store
SaveCacheResults(file, c) == {file, FileCorrupt, FileOk(c)}

\* variant: the membership test records the article it was asked about
StoreAfterCheck_marking(c, article) == CacheInsert(c, article)

\* is_duplicate reads self.cache and leaves it alone
StoreAfterCheck(c, article) == c

\* a DuplicateChecker built on a missing cache file
InitDup ==
    /\ pc = "api"
    /\ Volatile
    /\ maxArticles = 0
    /\ cacheFile = FileMissing
    /\ marksReturned = {}
    /\ runs = 1
    /\ dupPair \in DupArticles \X DupArticles
    /\ dupArg = NoArticle
    /\ dupOp = "none"
    /\ dupResult = FALSE
    /\ dupPrev = {}
    /\ dupMarked = {}
    /\ DlIdle
    /\ LibIdle
    /\ UnitIdle

\* is_duplicate(b) for either article the caller holds
DupIsDuplicate ==
    \E b \in {dupPair[1], dupPair[2]} :
       /\ dupResult' = is_duplicate(cache, b)
       /\ cache' = StoreAfterCheck(cache, b)
       /\ dupPrev' = IF dupOp = "is_duplicate" /\ dupArg = b THEN {dupResult} ELSE {}
       /\ dupOp' = "is_duplicate"
       /\ dupArg' = b
       /\ UNCHANGED <<cacheFile, dupMarked, dupPair>>

\* mark_as_processed(a) for the first article the caller holds
DupMark ==
    /\ \E a \in {dupPair[1]} :
          /\ a \notin dupMarked
          /\ cache' = CacheInsert(cache, a)
          /\ cacheFile' \in SaveCacheResults(cacheFile, cache')
          /\ dupMarked' = dupMarked \cup {a}
          /\ dupOp' = "mark_as_processed"
          /\ dupArg' = a
          /\ dupPrev' = {}
          /\ UNCHANGED <<dupResult, dupPair>>

dupFrame ==
    <<pc, running, stats, maxArticles, srcIdx, articles, artIdx, content, aiSummary,
      entry, trace, exit, loadedKind, marksReturned, runs, histVars>>

NextDup ==
    \/ (DupIsDuplicate /\ UNCHANGED <<dupFrame, dlVars, libVars, unitVars>>)
    \/ (DupMark /\ UNCHANGED <<dupFrame, dlVars, libVars, unitVars>>)

SpecDup == InitDup /\ [][NextDup]_vars

\* a link without its query string and fragment
RECURSIVE UrlPath(_)
UrlPath(link) ==
    IF link = <<>> \/ Head(link) \in {"?", "#"} THEN <<>>
    ELSE <<Head(link)>> \o UrlPath(Tail(link))

\* C3: is_duplicate leaves the store and its file alone; asked twice in a
\* row about the same article it answers the same, and answers false while
\* nothing was marked; it answers true for an article with the title and the
\* query- and fragment-free link of a marked one; it answers false for an
\* article when all that was marked has its link but another title.
C3_Membership ==
    /\ [][dupOp' = "is_duplicate" => (cache' = cache /\ cacheFile' = cacheFile)]_vars
    /\ [](dupOp = "is_duplicate" =>
            /\ \A before \in dupPrev : dupResult = before
            /\ dupMarked = {} => dupResult = FALSE
            /\ (\E a \in dupMarked : /\ a.title = dupArg.title
                                     /\ UrlPath(a.link) = UrlPath(dupArg.link))
                  => dupResult = TRUE
            /\ (/\ dupMarked # {}
                /\ \A a \in dupMarked : a.link = dupArg.link /\ a.title # dupArg.title)
                  => dupResult = FALSE)

\* same title, the marked link with a fragment added: reported as duplicate
C3_Witness ==
    /\ dupOp = "is_duplicate"
    /\ dupResult = TRUE
    /\ dupArg \notin dupMarked
    /\ \E a \in dupMarked : a.title = dupArg.title /\ dupArg.link = a.link \o <<"#">>

\* C27: is_duplicate answers true only for an article that has the title and
\* the query- and fragment-free link of an article that was marked.
C27_NoFalseDuplicate ==
    (dupOp = "is_duplicate" /\ dupResult) =>
        \E a \in dupMarked : /\ a.title = dupArg.title
                             /\ UrlPath(a.link) = UrlPath(dupArg.link)

(* ----------------- ContentDownloader.download_content ------------------ *)
\* what one session.get ... _extract_main_content pass can end in: the
\* extracted text, requests' SSLError, Timeout, a connection-level
\* RequestException (reset, refused, DNS), the HTTPError raise_for_status
\* raises for a 4xx/5xx answer, or an exception that is not a RequestException
DlOutcomes == {"ok", "ssl_error", "timeout", "request_error", "http_error", "other_error"}

\* timeouts and transient network errors
Transient(outcome) == outcome \in {"timeout", "request_error"}

\* variant: no SSLError clause ahead of the RequestException clause, whose
\* subclass SSLError is
ExceptClause_no_ssl(outcome) ==
    CASE outcome = "timeout" -> "timeout"
      [] outcome \in {"ssl_error", "request_error", "http_error"} -> "request"
      [] OTHER -> "other"

\* the except clause that handles a failed attempt: the first, in source
\* order, whose exception class the failure is an instance of
ExceptClause(outcome) ==
    CASE outcome = "ssl_error" -> "ssl"
      [] outcome = "timeout" -> "timeout"
      [] outcome \in {"request_error", "http_error"} -> "request"
      [] OTHER -> "other"

RECURSIVE Pow2(_)
Pow2(n) == IF n = 0 THEN 1 ELSE 2 * Pow2(n - 1)

\* variant: linear instead of exponential delay
Backoff_linear(attempt) == 2 * attempt

\* time.sleep(2 ** attempt)
Backoff(attempt) == Pow2(attempt)

\* `if attempt < self.retries - 1`
SleepsAfter(attempt, retries) == attempt < retries - 1

InitDownload ==
    /\ pc = "api"
    /\ Volatile
    /\ maxArticles = 0
    /\ cacheFile = FileMissing
    /\ marksReturned = {}
    /\ runs = 1
    /\ DupIdle
    /\ LibIdle
    /\ UnitIdle
    /\ dlRetries \in 0..MaxRetries
    /\ dlScript \in [1..(MaxRetries + 1) -> DlOutcomes]
    /\ dlPc = "loop"
    /\ dlAttempt = 0
    /\ dlGets = 0
    /\ dlVerify = <<>>
    /\ dlSleeps = <<>>
    /\ dlResult = "none"

\* `for attempt in range(self.retries)`, and the `return ""` after the loop
\* the catch-all clause ends the retry loop with break
LeavesLoop(clause) == clause = "other"

DlLoop ==
    /\ dlPc = "loop"
    /\ IF dlAttempt < dlRetries
       THEN /\ dlPc' = "get"
            /\ UNCHANGED dlResult
       ELSE /\ dlPc' = "returned"
            /\ dlResult' = "empty"
    /\ UNCHANGED <<dlRetries, dlScript, dlAttempt, dlGets, dlVerify, dlSleeps>>

\* the try block of one attempt and the except clause its outcome selects
DlGet ==
    /\ dlPc = "get"
    /\ dlGets' = dlGets + 1
    /\ dlVerify' = Append(dlVerify, TRUE)
    /\ LET outcome == dlScript[dlGets + 1]
           clause == ExceptClause(outcome)
       IN CASE outcome = "ok" ->
                 /\ dlResult' = "content"
                 /\ dlPc' = "returned"
                 /\ UNCHANGED dlAttempt
            [] outcome # "ok" /\ clause = "ssl" ->
                 /\ dlResult' = "empty"
                 /\ dlPc' = "returned"
                 /\ UNCHANGED dlAttempt
            [] outcome # "ok" /\ clause \in {"timeout", "request"} ->
                 IF SleepsAfter(dlAttempt, dlRetries)
                 THEN /\ dlPc' = "sleep"
                      /\ UNCHANGED <<dlResult, dlAttempt>>
                 ELSE /\ dlPc' = "loop"
                      /\ dlAttempt' = dlAttempt + 1
                      /\ UNCHANGED dlResult
            [] outcome # "ok" /\ clause = "other" ->
                 IF LeavesLoop(clause)
                 THEN /\ dlResult' = "empty"
                      /\ dlPc' = "returned"
                      /\ UNCHANGED dlAttempt
                 ELSE /\ dlPc' = "loop"
                      /\ dlAttempt' = dlAttempt + 1
                      /\ UNCHANGED dlResult
    /\ UNCHANGED <<dlRetries, dlScript, dlSleeps>>

\* time.sleep(2 ** attempt), then the next iteration
DlSleep ==
    /\ dlPc = "sleep"
    /\ dlSleeps' = Append(dlSleeps, [after |-> dlAttempt, secs |-> Backoff(dlAttempt)])
    /\ dlAttempt' = dlAttempt + 1
    /\ dlPc' = "loop"
    /\ UNCHANGED <<dlRetries, dlScript, dlGets, dlVerify, dlResult>>

NextDownload ==
    \/ (DlLoop /\ UNCHANGED <<mainVars, dupVars, libVars, unitVars>>)
    \/ (DlGet /\ UNCHANGED <<mainVars, dupVars, libVars, unitVars>>)
    \/ (DlSleep /\ UNCHANGED <<mainVars, dupVars, libVars, unitVars>>)

SpecDownload == InitDownload /\ [][NextDownload]_vars

\* number of leading requests the URL answers with a timeout or a transient error
RECURSIVE LeadingTransient(_)
LeadingTransient(script) ==
    IF script = <<>> \/ ~Transient(Head(script)) THEN 0
    ELSE 1 + LeadingTransient(Tail(script))

RECURSIVE TotalSleep(_)
TotalSleep(sleeps) ==
    IF sleeps = <<>> THEN 0 ELSE Head(sleeps).secs + TotalSleep(Tail(sleeps))

MinOf(a, b) == IF a < b THEN a ELSE b

\* C10: for a URL whose first k requests fail with a timeout or a transient
\* error (and whose next one, if made, succeeds), download_content makes
\* min(k+1, retries) requests; the j-th sleep follows the failed attempt
\* j-1 and lasts 2^(j-1) seconds; there is one sleep per failed attempt that
\* is followed by another and none after the last; the result is the content
\* when k < retries and Empty when all retries attempts failed; retries = 3
\* with two timeouts sleeps 2^0 + 2^1 seconds in total.
C10_RetryProtocol ==
    LET k == LeadingTransient(dlScript)
    IN /\ \A j \in 1..Len(dlSleeps) :
             /\ dlSleeps[j].after = j - 1
             /\ dlSleeps[j].secs = 2 ^ (j - 1)
             /\ j < dlRetries
       /\ (dlPc = "returned" /\ (k >= dlRetries \/ dlScript[k + 1] = "ok")) =>
             /\ dlGets = MinOf(k + 1, dlRetries)
             /\ Len(dlSleeps) = IF dlGets = 0 THEN 0 ELSE dlGets - 1
             /\ dlResult = IF k < dlRetries THEN "content" ELSE "empty"
             /\ (dlRetries = 3 /\ k = 2) => TotalSleep(dlSleeps) = 3

\* two timeouts, then success on the third and last allowed attempt
C10_Witness ==
    /\ dlPc = "returned"
    /\ dlRetries = 3
    /\ LeadingTransient(dlScript) = 2
    /\ dlGets = 3
    /\ dlResult = "content"
    /\ TotalSleep(dlSleeps) = 3

\* C11: a request that fails with an SSLError is the last one made: the call
\* has returned Empty, every sleep made precedes that request, and every
\* request, this one included, was made with certificate verification on.
C11_TlsFailureIsFinal ==
    /\ \A i \in 1..Len(dlVerify) : dlVerify[i] = TRUE
    /\ \A i \in 1..dlGets :
          dlScript[i] = "ssl_error" =>
             /\ i = dlGets
             /\ dlPc = "returned"
             /\ dlResult = "empty"
             /\ Len(dlSleeps) = i - 1

\* a timeout, a backoff, then the certificate failure, with one attempt left
C11_Witness ==
    /\ dlRetries = 3
    /\ dlGets = 2
    /\ dlScript[1] = "timeout"
    /\ dlScript[2] = "ssl_error"
    /\ dlPc = "returned"
    /\ dlResult = "empty"

\* C12: when download_content has returned, a request that
\* failed with anything but a timeout or a transient network error was the
\* last one made, and the result is Empty.
C12_OnlyTransientRetried ==
    dlPc = "returned" =>
        \A i \in 1..dlGets :
           (dlScript[i] # "ok" /\ ~Transient(dlScript[i])) =>
               (i = dlGets /\ dlResult = "empty")

(* ---------------------------- RateLimiter.wait ---------------------------- *)

MaxInterval == 2
MaxCalls == 3
MaxOversleep == 1

\* the wall clock when the limiter is built: seconds since 1970, far beyond
\* any configured request_delay
Epoch == MaxInterval + 1
MaxClock == Epoch + MaxCalls * MaxInterval

\* the main-program variables of a process that only exercises one class
MainIdle ==
    /\ pc = "api"
    /\ Volatile
    /\ maxArticles = 0
    /\ cacheFile = FileMissing
    /\ marksReturned = {}
    /\ runs = 1

\* variant: the limiter starts its interval when it is built
LastCalledAtInit_now(now) == now

\* __init__ sets last_called to 0
LastCalledAtInit(now) == 0

InitRate ==
    /\ MainIdle
    /\ DupIdle
    /\ DlIdle
    /\ FeedIdle
    /\ TagIdle
    /\ UnitIdle
    /\ rlMin \in 0..MaxInterval
    /\ rlClock \in Epoch..(Epoch + 1)
    /\ rlLast = LastCalledAtInit(rlClock)
    /\ rlPc = "idle"
    /\ rlCur = 0
    /\ rlSlept = <<>>
    /\ rlReturns = <<>>

\* current_time = time.time(); elapsed = ...; if elapsed < self.min_interval
RlEnter ==
    /\ rlPc = "idle"
    /\ Len(rlSlept) < MaxCalls
    /\ rlCur' = rlClock
    /\ rlSlept' = Append(rlSlept, FALSE)
    /\ rlPc' = IF rlClock - rlLast < rlMin THEN "sleep" ELSE "stamp"
    /\ UNCHANGED <<rlMin, rlLast, rlClock, rlReturns>>

\* time.sleep(self.min_interval - elapsed): the clock moves on by at least
\* the time asked for
RlSleep ==
    /\ rlPc = "sleep"
    /\ LET sleep_time == rlMin - (rlCur - rlLast)
       IN \E over \in 0..MaxOversleep : rlClock' = rlClock + sleep_time + over
    /\ rlSlept' = [rlSlept EXCEPT ![Len(rlSlept)] = TRUE]
    /\ rlPc' = "stamp"
    /\ UNCHANGED <<rlMin, rlLast, rlCur, rlReturns>>

\* self.last_called = time.time(), the last statement of wait
RlStamp ==
    /\ rlPc = "stamp"
    /\ rlLast' = rlClock
    /\ rlReturns' = Append(rlReturns, rlClock)
    /\ rlPc' = "idle"
    /\ UNCHANGED <<rlMin, rlClock, rlCur, rlSlept>>

\* time passes, inside a call or between calls
RlTick ==
    /\ rlPc \in {"idle", "sleep", "stamp"}
    /\ rlClock < MaxClock
    /\ rlClock' = rlClock + 1
    /\ UNCHANGED <<rlMin, rlLast, rlPc, rlCur, rlSlept, rlReturns>>

NextRate ==
    \/ (RlEnter /\ UNCHANGED <<mainVars, dupVars, dlVars, feedVars, tagVars, unitVars>>)
    \/ (RlSleep /\ UNCHANGED <<mainVars, dupVars, dlVars, feedVars, tagVars, unitVars>>)
    \/ (RlStamp /\ UNCHANGED <<mainVars, dupVars, dlVars, feedVars, tagVars, unitVars>>)
    \/ (RlTick /\ UNCHANGED <<mainVars, dupVars, dlVars, feedVars, tagVars, unitVars>>)

SpecRate == InitRate /\ [][NextRate]_vars

\* C13: the first wait on a fresh limiter does not sleep, and of any two
\* consecutive waits the second ends no earlier than min_interval after the
\* first ended (a wait ends on its last statement, the clock reading it
\* stores in last_called).
C13_MinimumSpacing ==
    /\ Len(rlSlept) >= 1 => (rlSlept[1] = FALSE /\ (Len(rlSlept) = 1 => rlPc # "sleep"))
    /\ \A i \in 2..Len(rlReturns) : rlReturns[i] >= rlReturns[i - 1] + rlMin

\* three waits done: the first went straight through, the second had to
\* sleep, the third came late enough not to
C13_Witness ==
    /\ Len(rlReturns) = 3
    /\ rlMin = 2
    /\ rlSlept = <<FALSE, TRUE, FALSE>>
    /\ rlReturns[2] = rlReturns[1] + rlMin

(* ------------------------- pacing and feed failures ------------------------ *)

\* C14: when process_article is entered after an earlier article of the run,
\* and when parse_feed is about to be called for a source after the first,
\* RateLimiter.wait() has been invoked since the earlier article, respectively
\* since the earlier parse_feed.
C14_WaitBetweenArticlesAndSources ==
    /\ (pc = "p_entry" /\ pace.any) => "wait" \in pace.art
    /\ (pc = "parse" /\ srcIdx > 1) => "wait" \in pace.src

\* C15: parse_feed returns to run() however it ends; a source whose fetch or
\* parse failed or that had no entries contributes no article; no source is
\* parsed twice; and a run that was neither cancelled nor stopped by the save
\* ceiling has called parse_feed for every source.
C15_FeedFailureIsolated ==
    /\ [][pc = "parse" => pc' \in {"parse", "parse_blocked", "art_check", "init"}]_vars
    /\ [](feedOutcome \in {"no_entries", "exception"} => articles = <<>>)
    /\ [](\A i, j \in 1..Len(parsed) : i < j => parsed[i].src < parsed[j].src)
    /\ []((pc = "report" /\ ~Cancelled(running)
              /\ ~ReachedLimit(stats.saved, maxArticles))
            => [i \in 1..Len(parsed) |-> parsed[i].src] = [i \in 1..NumSources |-> i])

\* the first source raised inside parse_feed, the second was parsed all the
\* same and the run got to its report
C15_Witness ==
    /\ pc = "report"
    /\ running
    /\ Len(parsed) = NumSources
    /\ parsed[1].outcome = "exception"
    /\ parsed[NumSources].outcome = "entries"
    /\ stats.total_fetched > 0
    /\ pace.arts

(* ------------------------------ termination ------------------------------- *)

\* the steps of the main thread
Steps ==
    \/ Construct
    \/ RunStart
    \/ SrcCheck
    \/ ParseFeed
    \/ ArtCheck
    \/ PEntry
    \/ PDup
    \/ PContent
    \/ PSumm
    \/ PTags
    \/ PRender
    \/ PSave
    \/ MInsert
    \/ MOpen
    \/ MDump
    \/ PCount
    \/ ArtWait
    \/ SrcSleep
    \/ Report

\* one process that is not killed: the main thread and the signal handler
NextLive ==
    \/ (Steps /\ UNCHANGED <<dupVars, dlVars, libVars, unitVars>>)
    \/ (Signal /\ UNCHANGED <<dupVars, dlVars, libVars, unitVars>>)

\* the interpreter keeps running the main thread whenever it has a step to
\* take; signals may or may not arrive
SpecLive == Init /\ [][NextLive]_vars /\ WF_vars(Steps /\ UNCHANGED <<dupVars, dlVars, libVars, unitVars>>)

\* C16: a run that has started gets to its final statistics report.
C16_RunReachesReport == (pc = "run_start") ~> (pc = "report")

(* --------------------------- RSSParser.parse_feed -------------------------- *)

MaxEntries == 2
MaxDaysBack == 2
MaxOffset == 1

\* time is counted in ticks; timedelta(days=1) is this many of them, more
\* than any UTC offset
TicksPerDay == MaxOffset + 1

\* the UTC instant at which the parser is built and the feed parsed, late
\* enough for every cutoff to be a positive time
NowUtc == MaxDaysBack * TicksPerDay + MaxOffset + 1

\* datetime.now(): the naive local wall time
LocalNow(nowUtc, tz) == nowUtc + tz

\* self.cutoff_date = datetime.now() - timedelta(days=days_back)
CutoffDate(nowUtc, tz, days) == LocalNow(nowUtc, tz) - days * TicksPerDay

\* what _extract_published_date returns for an entry: None (no date field, or
\* none that parses), a naive datetime (built from feedparser's UTC
\* published_parsed tuple, or parsed from a string without %z), or an
\* offset-aware datetime (parsed from a string with %z)
NoDate == [kind |-> "none", wall |-> 0]
Naive(wall) == [kind |-> "naive", wall |-> wall]
AwareDate == [kind |-> "aware", wall |-> 0]
EntryDates == {NoDate, AwareDate} \cup {Naive(w) : w \in 0..NowUtc}

\* raw titles: absent, markup without text, text
EntryTitles == {RawAbsent, RawMarkupOnly, RawShort}
FeedEntries == [title : EntryTitles, date : EntryDates]

InitFeed ==
    /\ MainIdle
    /\ DupIdle
    /\ DlIdle
    /\ RlIdle
    /\ TagIdle
    /\ UnitIdle
    /\ fdTz \in (0 - MaxOffset)..MaxOffset
    /\ fdDays \in 0..MaxDaysBack
    /\ fdEntries \in SeqsUpTo(FeedEntries, MaxEntries)
    /\ fdIdx = 1
    /\ fdResult = <<>>
    /\ fdPc = "entries"
    /\ fdRaised = FALSE

\* variant: `<=` for `<`
TooOld_inclusive(published, cutoff) == published <= cutoff

\* `published < self.cutoff_date`, both naive
TooOld(published, cutoff) == published < cutoff

\* variant: the extracted date is stored as it is
PublishedOrNow_none(published, now) == published

\* `published or datetime.now()`
PublishedOrNow(published, now) ==
    IF published.kind = "none" THEN Naive(now) ELSE published

\* variant: the except clause returns the articles gathered so far
OnException_partial(gathered) == gathered

\* `except Exception as e: ... return []`
OnException(gathered) == <<>>

\* `if not feed.entries: return []`, and the return after the loop
FdReturn ==
    /\ fdPc = "entries"
    /\ fdIdx > Len(fdEntries)
    /\ fdPc' = "returned"
    /\ UNCHANGED <<fdTz, fdDays, fdEntries, fdIdx, fdResult, fdRaised>>

\* one pass of `for entry in feed.entries`; comparing an offset-aware date
\* with the naive cutoff raises TypeError, which the except clause of
\* parse_feed turns into `return []`
FdEntry ==
    /\ fdPc = "entries"
    /\ fdIdx <= Len(fdEntries)
    /\ LET e == fdEntries[fdIdx]
           published == e.date
           cutoff == CutoffDate(NowUtc, fdTz, fdDays)
           article == [idx |-> fdIdx,
                       title |-> clean_html_len(e.title),
                       published |-> PublishedOrNow(published, LocalNow(NowUtc, fdTz))]
       IN IF published.kind = "aware"
          THEN /\ fdRaised' = TRUE
               /\ fdResult' = OnException(fdResult)
               /\ fdPc' = "returned"
               /\ UNCHANGED fdIdx
          ELSE /\ fdResult' = IF published.kind = "naive" /\ TooOld(published.wall, cutoff)
                                THEN fdResult
                              ELSE IF article.title = 0 THEN fdResult
                              ELSE Append(fdResult, article)
               /\ fdIdx' = fdIdx + 1
               /\ UNCHANGED <<fdPc, fdRaised>>
    /\ UNCHANGED <<fdTz, fdDays, fdEntries>>

NextFeed ==
    \/ (FdEntry /\ UNCHANGED <<mainVars, dupVars, dlVars, rlVars, tagVars, unitVars>>)
    \/ (FdReturn /\ UNCHANGED <<mainVars, dupVars, dlVars, rlVars, tagVars, unitVars>>)

SpecFeed == InitFeed /\ [][NextFeed]_vars

\* the entries whose article is in the list parse_feed holds
Included == {fdResult[k].idx : k \in 1..Len(fdResult)}

\* parse_feed has returned the list it built
FeedDone == fdPc = "returned" /\ ~fdRaised

\* C17: when parse_feed returns the list it built, a titled entry whose
\* publish time equals self.cutoff_date is in it and a titled entry whose
\* publish time is one tick, or more, before self.cutoff_date is not.
C17_CutoffBoundary ==
    FeedDone =>
        \A i \in 1..Len(fdEntries) :
           LET e == fdEntries[i]
               cutoff == CutoffDate(NowUtc, fdTz, fdDays)
           IN (e.date.kind = "naive" /\ clean_html_len(e.title) > 0) =>
                 /\ e.date.wall = cutoff => i \in Included
                 /\ e.date.wall = cutoff - 1 => i \notin Included
                 /\ e.date.wall < cutoff => i \notin Included

\* a feed with one entry dated at the cutoff and one a tick before it: the
\* first is returned, the second is not
C17_Witness ==
    /\ FeedDone
    /\ Len(fdEntries) = 2
    /\ fdDays > 0
    /\ fdEntries[1].date = Naive(CutoffDate(NowUtc, fdTz, fdDays))
    /\ fdEntries[2].date = Naive(CutoffDate(NowUtc, fdTz, fdDays) - 1)
    /\ Included = {1}

\* C18: a titled entry whose UTC publish time is p is left out exactly when p
\* is before the current UTC time minus days_back days, whatever the offset
\* of the host.
C18_UtcCutoff ==
    FeedDone =>
        \A i \in 1..Len(fdEntries) :
           LET e == fdEntries[i]
           IN (e.date.kind = "naive" /\ clean_html_len(e.title) > 0) =>
                 ((i \notin Included) = (e.date.wall < NowUtc - fdDays * TicksPerDay))

C28_AllOrNothing ==
    /\ fdRaised => /\ fdPc = "returned"
                   /\ fdResult = <<>>
                   /\ fdEntries[fdIdx].date.kind = "aware"
                   /\ \A i \in 1..(fdIdx - 1) : fdEntries[i].date.kind # "aware"
    /\ (fdPc = "returned" /\ \E i \in 1..Len(fdEntries) : fdEntries[i].date.kind = "aware")
          => fdRaised

\* the first entry, titled and undated, was accepted; the second raised and
\* the list returned is empty
C28_Witness ==
    /\ fdRaised
    /\ fdPc = "returned"
    /\ fdIdx = 2
    /\ fdEntries[1] = [title |-> RawShort, date |-> NoDate]
    /\ fdEntries[2].date.kind = "aware"
    /\ fdResult = <<>>

(* ------------------ _generate_tags and generate_front_matter --------------- *)

MaxFeedTags == 8
MaxKeywordHits == 2

\* `return tags[:8]`
TagCap == 8

\* tags: the base tag, the name of the source, the tags of keywords_map, and
\* the other terms a feed entry can carry
AiTag == <<"AI", 0>>
SourceTag == <<"source", 0>>
KeywordTag(j) == <<"keyword", j>>
OtherTag(i) == <<"term", i>>

\* the lists _extract_tags can return: distinct terms, one of which may be
\* "AI" and one of which may be the name of the source
FeedTagLists ==
    { [i \in 1..n |-> IF i = ai THEN AiTag ELSE IF i = sr THEN SourceTag ELSE OtherTag(i)] :
        n \in 0..MaxFeedTags, ai \in 0..MaxFeedTags, sr \in 0..MaxFeedTags }

InList(tag, tags) == \E i \in 1..Len(tags) : tags[i] = tag

\* tags.append(tag) unless the list has it
AppendNew(tags, tag) == IF InList(tag, tags) THEN tags ELSE Append(tags, tag)

RECURSIVE AppendKeywords(_, _, _)
\* the loop over keywords_map, for an article whose text has the first hits
\* keywords that are left to look at
AppendKeywords(tags, j, hits) ==
    IF j > hits THEN tags
    ELSE AppendKeywords(AppendNew(tags, KeywordTag(j)), j + 1, hits)

\* tags[:n]
Prefix(tags, n) == SubSeq(tags, 1, IF Len(tags) < n THEN Len(tags) ELSE n)

_generate_tags(tags, hits) ==
    Prefix(AppendKeywords(AppendNew(tags, AiTag), 1, hits), TagCap)

InitTags ==
    /\ MainIdle
    /\ DupIdle
    /\ DlIdle
    /\ RlIdle
    /\ FeedIdle
    /\ UnitIdle
    /\ tgKw \in 0..MaxKeywordHits
    /\ tgTags \in FeedTagLists
    /\ tgFront = <<>>
    /\ tgPc = "summarized"

\* tags = self._generate_tags(article, ai_summary); article['tags'] = tags
TgGenerate ==
    /\ tgPc = "summarized"
    /\ tgTags' = _generate_tags(tgTags, tgKw)
    /\ tgPc' = "enriched"
    /\ UNCHANGED <<tgKw, tgFront>>

\* generate_front_matter: tags is the list object article_data holds, the
\* source name is appended to it in place, and the list is written out
TgFrontMatter ==
    /\ tgPc = "enriched"
    /\ tgTags' = AppendNew(tgTags, SourceTag)
    /\ tgFront' = AppendNew(tgTags, SourceTag)
    /\ tgPc' = "rendered"
    /\ UNCHANGED tgKw

NextTags ==
    \/ (TgGenerate /\ UNCHANGED <<mainVars, dupVars, dlVars, rlVars, feedVars, unitVars>>)
    \/ (TgFrontMatter /\ UNCHANGED <<mainVars, dupVars, dlVars, rlVars, feedVars, unitVars>>)

SpecTags == InitTags /\ [][NextTags]_vars

\* C20: from the return of _generate_tags on, the article's tag list and the
\* tags written into the front matter have at most 8 elements.
C20_TagCap ==
    tgPc \in {"enriched", "rendered"} =>
        (Len(tgTags) <= TagCap /\ Len(tgFront) <= TagCap)

(* --------------------------- summarizer fallback --------------------------- *)

\* C21: once the summary step of an article is done, the summary the document
\* will carry is neither a failure message nor the too-short notice: it is
\* the summarizer's text, or the feed summary; and it is the feed summary
\* whenever the content was shorter than 50 characters. The article goes on
\* to render.
C21_SummaryFallback ==
    ("summ" \in trace /\ pc \in ArticlePcs) =>
        /\ aiSummary \in {"text", "feed_summary"}
        /\ content < SummaryMinLen => aiSummary = "feed_summary"
        /\ pc # "p_summ"

(* --------------------- ContentDownloader._extract_main_content ------------- *)

MaxElems == 3
MaxTextLen == 2
NumSelectors == 3

\* an element one of the generic selectors matches: the rank of the first
\* selector of the list that matches it, and len(e.get_text())
Candidates == [sel : 1..NumSelectors, len : 0..MaxTextLen]

\* the URL has no site-specific rule, or it has one (arxiv.org, openai.com)
\* and soup.find did or did not find the site's container
Sites == {"generic", "site_found", "site_missed"}

\* the state of a process that only exercises one class
AllIdle == MainIdle /\ DupIdle /\ DlIdle /\ LibIdle

InitExtract ==
    /\ WkIdle
    /\ AllIdle
    /\ TwIdle
    /\ ClIdle
    /\ DtIdle
    /\ exPage \in SeqsUpTo(Candidates, MaxElems)
    /\ exSite \in Sites
    /\ exSel = 0
    /\ exChosen = NoElement
    /\ exPc = "site"

\* soup.select(selector): the elements of the page the selector matches
Select(page, selector) == {i \in 1..Len(page) : page[i].sel = selector}

\* variant: elements[0]
Longest_first(page, elements) ==
    CHOOSE i \in elements : \A j \in elements : i <= j

\* max(elements, key=lambda e: len(e.get_text())): the first, in document
\* order, of the elements of greatest text length
Longest(page, elements) ==
    CHOOSE i \in elements :
        /\ \A j \in elements : page[j].len <= page[i].len
        /\ \A j \in elements : page[j].len = page[i].len => i <= j

\* the site-specific rules
ExSite ==
    /\ exPc = "site"
    /\ exChosen' = IF exSite = "site_found" THEN [kind |-> "site", idx |-> 0] ELSE NoElement
    /\ exPc' = IF exSite = "site_found" THEN "done" ELSE "selectors"
    /\ exSel' = 1
    /\ UNCHANGED <<exPage, exSite>>

\* one pass of `for selector in selectors`, with its break
ExSelector ==
    /\ exPc = "selectors"
    /\ exSel <= NumSelectors
    /\ LET elements == Select(exPage, exSel)
       IN IF elements # {}
          THEN /\ exChosen' = [kind |-> "element", idx |-> Longest(exPage, elements)]
               /\ exPc' = "done"
               /\ UNCHANGED exSel
          ELSE /\ exSel' = exSel + 1
               /\ UNCHANGED <<exChosen, exPc>>
    /\ UNCHANGED <<exPage, exSite>>

\* `if not main_content: main_content = soup.find('body')`
ExBody ==
    /\ exPc = "selectors"
    /\ exSel > NumSelectors
    /\ exChosen' = [kind |-> "body", idx |-> 0]
    /\ exPc' = "done"
    /\ UNCHANGED <<exPage, exSite, exSel>>

NextExtract ==
    \/ (ExSite /\ UNCHANGED <<mainVars, dupVars, dlVars, libVars, twVars, clVars, dtVars, wkVars>>)
    \/ (ExSelector /\ UNCHANGED <<mainVars, dupVars, dlVars, libVars, twVars, clVars, dtVars, wkVars>>)
    \/ (ExBody /\ UNCHANGED <<mainVars, dupVars, dlVars, libVars, twVars, clVars, dtVars, wkVars>>)

SpecExtract == InitExtract /\ [][NextExtract]_vars

\* C23: on a page without site-specific container, a candidate whose text is
\* strictly longer than that of every other candidate is the element
\* returned.
C23_LongestOfAllCandidates ==
    (exPc = "done" /\ exSite # "site_found") =>
        \A i \in 1..Len(exPage) :
           (\A j \in 1..Len(exPage) : j # i => exPage[j].len < exPage[i].len)
               => exChosen = [kind |-> "element", idx |-> i]

\* C23 (amended): the element returned is matched by the first selector of
\* the list that matches anything; among the elements that selector matches
\* none has a longer text, and none of equal text length comes before it.
C23_LongestOfFirstMatchingSelector ==
    (exPc = "done" /\ exSite # "site_found" /\ Len(exPage) > 0) =>
        /\ exChosen.kind = "element"
        /\ LET c == exPage[exChosen.idx]
           IN \A j \in 1..Len(exPage) :
                 /\ exPage[j].sel >= c.sel
                 /\ exPage[j].sel = c.sel => exPage[j].len <= c.len
                 /\ (exPage[j].sel = c.sel /\ exPage[j].len = c.len) => exChosen.idx <= j

\* a short element of the first selector after a shorter one, and a longer
\* element that only a later selector matches: the short one is returned
C23_Witness ==
    /\ exPc = "done"
    /\ exSite = "generic"
    /\ Len(exPage) = 3
    /\ exPage[1] = [sel |-> 1, len |-> 0]
    /\ exPage[2] = [sel |-> 1, len |-> 1]
    /\ exPage[3] = [sel |-> 2, len |-> 2]
    /\ exChosen = [kind |-> "element", idx |-> 2]

(* ------------------- two crawlers on one cache file ------------------------ *)

MaxMarksEach == 1

\* variant: save_cache merges what the file holds into what it writes
Dumped_merged(file, c) ==
    FileOk([k \in DOMAIN file.data \cup DOMAIN c |->
               IF k \in DOMAIN c THEN c[k] ELSE file.data[k]])

\* json.dump(self.cache, f, ...): the file is the process's own copy
Dumped(file, c) == FileOk(c)

\* two processes started on the same cache file; the disk does not fail
InitTwo ==
    /\ WkIdle
    /\ AllIdle
    /\ ExIdle
    /\ ClIdle
    /\ DtIdle
    /\ twFile \in InitialFiles
    /\ twMem = [i \in Instances |-> EmptyCache]
    /\ twPc = [i \in Instances |-> "new"]
    /\ twPending = [i \in Instances |-> NoArticle]
    /\ twMarks = [i \in Instances |-> 0]
    /\ twDirty = [i \in Instances |-> FALSE]
    /\ twReturned = {}

\* DuplicateChecker.__init__: self.cache = self.load_cache()
TwConstruct(i) ==
    /\ twPc[i] = "new"
    /\ twMem' = [twMem EXCEPT ![i] = load_cache(twFile).cache]
    /\ twPc' = [twPc EXCEPT ![i] = "run"]
    /\ UNCHANGED <<twFile, twPending, twMarks, twDirty, twReturned>>

\* mark_as_processed: self.cache[article_hash] = {...}
TwInsert(i) ==
    /\ twPc[i] = "run"
    /\ twMarks[i] < MaxMarksEach
    /\ \E a \in MainArticles :
          /\ ~is_duplicate(twMem[i], a)
          /\ twMem' = [twMem EXCEPT ![i] = CacheInsert(twMem[i], a)]
          /\ twPending' = [twPending EXCEPT ![i] = CacheRecord(a)]
    /\ twMarks' = [twMarks EXCEPT ![i] = @ + 1]
    /\ twPc' = [twPc EXCEPT ![i] = "open"]
    /\ UNCHANGED <<twFile, twDirty, twReturned>>

\* save_cache: open(self.cache_file, 'w') truncates the file
TwOpen(i) ==
    /\ twPc[i] = "open"
    /\ twFile' = FileCorrupt
    /\ twPc' = [twPc EXCEPT ![i] = "dump"]
    /\ twDirty' = [j \in Instances |->
                     IF j = i THEN FALSE ELSE twDirty[j] \/ twPc[j] = "dump"]
    /\ UNCHANGED <<twMem, twPending, twMarks, twReturned>>

\* save_cache: json.dump and close, then mark_as_processed returns; when the
\* other process wrote to the file while this one had it open the bytes of
\* the two may be mixed
TwDump(i) ==
    /\ twPc[i] = "dump"
    /\ \E mixed \in {FALSE, twDirty[i]} :
          twFile' = IF mixed THEN FileCorrupt ELSE Dumped(twFile, twMem[i])
    /\ twReturned' = twReturned \cup {get_article_hash(twPending[i])}
    /\ twPending' = [twPending EXCEPT ![i] = NoArticle]
    /\ twPc' = [twPc EXCEPT ![i] = "run"]
    /\ twDirty' = [j \in Instances |->
                     IF j = i THEN FALSE ELSE twDirty[j] \/ twPc[j] = "dump"]
    /\ UNCHANGED <<twMem, twMarks>>

\* run() ends
TwFinish(i) ==
    /\ twPc[i] = "run"
    /\ twPc' = [twPc EXCEPT ![i] = "done"]
    /\ UNCHANGED <<twFile, twMem, twPending, twMarks, twDirty, twReturned>>

NextTwo ==
    \/ \E i \in Instances : (TwConstruct(i) /\ UNCHANGED <<mainVars, dupVars, dlVars, libVars, exVars, clVars, dtVars, wkVars>>)
    \/ \E i \in Instances : (TwInsert(i) /\ UNCHANGED <<mainVars, dupVars, dlVars, libVars, exVars, clVars, dtVars, wkVars>>)
    \/ \E i \in Instances : (TwOpen(i) /\ UNCHANGED <<mainVars, dupVars, dlVars, libVars, exVars, clVars, dtVars, wkVars>>)
    \/ \E i \in Instances : (TwDump(i) /\ UNCHANGED <<mainVars, dupVars, dlVars, libVars, exVars, clVars, dtVars, wkVars>>)
    \/ \E i \in Instances : (TwFinish(i) /\ UNCHANGED <<mainVars, dupVars, dlVars, libVars, exVars, clVars, dtVars, wkVars>>)

SpecTwo == InitTwo /\ [][NextTwo]_vars

\* C22: a process never takes over what the other one wrote (after it is
\* built its copy only grows by its own marks), and a completed save leaves
\* in the file exactly the copy of the process that saved; so a mark of one
\* process that has returned can be missing from the file when both are done.
C22_WholeFileRewrite ==
    [][\A i \in Instances :
          /\ twPc[i] # "new" =>
                DOMAIN twMem'[i] \subseteq
                    (DOMAIN twMem[i] \cup {get_article_hash(twPending'[i])})
          /\ (twPc[i] = "dump" /\ twPc'[i] = "run" /\ twFile'.kind = "ok") =>
                twFile'.data = twMem[i]]_vars

\* both processes are done, the file is well formed, and a mark that had
\* returned is not in it
C22_Witness ==
    /\ \A i \in Instances : twPc[i] = "done"
    /\ twFile.kind = "ok"
    /\ \E k \in twReturned : k \notin DOMAIN twFile.data

(* ------------------------ TextNormalizer.clean_html ------------------------ *)

MaxNodes == 2

\* the element kinds clean_html decomposes
Decomposed == {"script", "style", "nav", "footer", "header", "aside", "iframe"}

\* the element kinds a document is made of: those, noscript, and a paragraph
ElementKinds == Decomposed \cup {"noscript", "p"}

\* the letter the text of the i-th element is written with
Letters == <<"a", "b", "c", "d">>
Whitespace == {" ", "\n", "\t"}

\* the texts an element can hold: none, a word, a padded word, two words
\* with a run of whitespace between them
Texts(i) ==
    { <<>>,
      <<Letters[i]>>,
      <<" ", Letters[i], "\n">>,
      <<Letters[i], "\t", "\n", Letters[i]>> }

Documents ==
    UNION { { d \in [1..n -> [kind : ElementKinds,
                               text : UNION {Texts(i) : i \in 1..n},
                               gone : {FALSE}]] :
                \A i \in 1..n : d[i].text \in Texts(i) } : n \in 0..MaxNodes }

InitClean ==
    /\ WkIdle
    /\ AllIdle
    /\ ExIdle
    /\ TwIdle
    /\ DtIdle
    /\ clDoc \in Documents
    /\ clOut = <<>>
    /\ clPc = "parsed"

\* for script in soup([...]): script.decompose()
ClDecompose ==
    /\ clPc = "parsed"
    /\ clDoc' = [i \in 1..Len(clDoc) |->
                    [clDoc[i] EXCEPT !.gone = clDoc[i].kind \in Decomposed]]
    /\ clPc' = "stripped"
    /\ UNCHANGED clOut

RECURSIVE Joined(_, _)
\* soup.get_text(separator=' '): the text nodes left, a space between them
Joined(doc, i) ==
    IF i > Len(doc) THEN <<>>
    ELSE LET rest == Joined(doc, i + 1)
         IN IF doc[i].gone \/ doc[i].text = <<>> THEN rest
            ELSE IF rest = <<>> THEN doc[i].text
            ELSE doc[i].text \o <<" ">> \o rest

ClGetText ==
    /\ clPc = "stripped"
    /\ clOut' = Joined(clDoc, 1)
    /\ clPc' = "text"
    /\ UNCHANGED clDoc

RECURSIVE Collapse(_)
\* re.sub(r'\s+', ' ', text): every run of whitespace becomes one space
Collapse(text) ==
    IF text = <<>> THEN <<>>
    ELSE IF Head(text) \in Whitespace
         THEN IF Len(text) > 1 /\ text[2] \in Whitespace
              THEN Collapse(Tail(text))
              ELSE <<" ">> \o Collapse(Tail(text))
         ELSE <<Head(text)>> \o Collapse(Tail(text))

\* str.strip() of a text whose whitespace runs are single spaces
Strip(text) ==
    LET from == IF text # <<>> /\ Head(text) = " " THEN 2 ELSE 1
        to == IF text # <<>> /\ text[Len(text)] = " " THEN Len(text) - 1 ELSE Len(text)
    IN SubSeq(text, from, to)

ClCollapse ==
    /\ clPc = "text"
    /\ clOut' = Strip(Collapse(clOut))
    /\ clPc' = "returned"
    /\ UNCHANGED clDoc

NextClean ==
    \/ (ClDecompose /\ UNCHANGED <<mainVars, dupVars, dlVars, libVars, exVars, twVars, dtVars, wkVars>>)
    \/ (ClGetText /\ UNCHANGED <<mainVars, dupVars, dlVars, libVars, exVars, twVars, dtVars, wkVars>>)
    \/ (ClCollapse /\ UNCHANGED <<mainVars, dupVars, dlVars, libVars, exVars, twVars, dtVars, wkVars>>)

SpecClean == InitClean /\ [][NextClean]_vars

\* C24: the text clean_html returns has no letter of an element that was a
\* script, style, nav, footer, header, aside, iframe or noscript element, and
\* no two whitespace characters in a row.
C24_StripsEightKinds ==
    clPc = "returned" =>
        /\ \A i \in 1..Len(clDoc) :
              clDoc[i].kind \in (Decomposed \cup {"noscript"}) =>
                  \A k \in 1..Len(clOut) : clOut[k] # Letters[i]
        /\ \A k \in 1..(Len(clOut) - 1) :
              ~(clOut[k] \in Whitespace /\ clOut[k + 1] \in Whitespace)

(* -------------- _extract_published_date and parse_rss_date ---------------- *)

MaxWall == 2

\* a datetime: its wall-clock reading and, when it is offset-aware, its
\* offset from UTC; a naive one has none
DtNaive(wall) == [kind |-> "naive", wall |-> wall, off |-> 0]
DtAware(wall, off) == [kind |-> "aware", wall |-> wall, off |-> off]

\* wall-clock readings, none so early that its UTC instant is before tick 0
WallTimes == MaxOffset..(MaxOffset + MaxWall)
Offsets == (0 - MaxOffset)..MaxOffset

\* how the date string of an entry is written:
\*   iso_z         2024-01-01T12:00:00Z
\*   iso_offset    2024-01-01T12:00:00+0100
\*   space_naive   2024-01-01 12:00:00
\*   space_offset  2024-01-01 12:00:00+0100
\*   rfc_gmt       Mon, 01 Jan 2024 12:00:00 GMT
\*   rfc_offset    Mon, 01 Jan 2024 12:00:00 +0100
\*   unsupported   anything else
\*   absent        no date string
OffsetFormats == {"iso_offset", "space_offset", "rfc_offset"}
ZoneFormats == {"iso_z", "space_naive", "rfc_gmt"}
DateFormats == OffsetFormats \cup ZoneFormats \cup {"unsupported", "absent"}

\* the date fields of an entry: feedparser's published_parsed tuple, in UTC,
\* when it could read the date, and the date string
DateFields ==
    { e \in [parsed : {DtNone} \cup {DtNaive(w) : w \in WallTimes},
             fmt : DateFormats, wall : WallTimes, off : Offsets] :
        /\ e.fmt \notin OffsetFormats => e.off = 0
        /\ e.fmt \in {"unsupported", "absent"} => e.wall = MaxOffset }

InitDate ==
    /\ WkIdle
    /\ AllIdle
    /\ ExIdle
    /\ TwIdle
    /\ ClIdle
    /\ dtEntry \in DateFields
    /\ dtResult = DtNone
    /\ dtPc = "call"

\* RSSParser._extract_published_date: datetime(*parsed_time[:6]) when the
\* entry has a time tuple, else the first strptime format the string matches
\* ('%Y-%m-%dT%H:%M:%SZ', '%Y-%m-%dT%H:%M:%S%z', '%Y-%m-%d %H:%M:%S',
\* '%a, %d %b %Y %H:%M:%S %Z', '%a, %d %b %Y %H:%M:%S %z'), returned as
\* strptime built it, else None
_extract_published_date(e) ==
    IF e.parsed # DtNone THEN e.parsed
    ELSE IF e.fmt \in ZoneFormats THEN DtNaive(e.wall)
    ELSE IF e.fmt \in {"iso_offset", "rfc_offset"} THEN DtAware(e.wall, e.off)
    ELSE DtNone

\* parse_rss_date of the weekly report: parsedate_tz and mktime_tz for an
\* RFC 2822 string, else the first strptime format the string matches
\* ("%Y-%m-%dT%H:%M:%S%z", "%Y-%m-%dT%H:%M:%SZ", "%Y-%m-%d %H:%M:%S%z"),
\* moved to UTC and stripped of its tzinfo, else None
parse_rss_date(e) ==
    IF e.fmt \in {"rfc_gmt", "rfc_offset"} THEN DtNaive(e.wall - e.off)
    ELSE IF e.fmt \in {"iso_z", "iso_offset", "space_offset"} THEN DtNaive(e.wall - e.off)
    ELSE DtNone

\* published = self._extract_published_date(entry)
ExtractPublishedDate ==
    /\ dtPc = "call"
    /\ dtResult' = _extract_published_date(dtEntry)
    /\ dtPc' = "extracted"
    /\ UNCHANGED dtEntry

\* pub_date = parse_rss_date(date_str) if date_str else None
ParseRssDate ==
    /\ dtPc = "call"
    /\ dtResult' = IF dtEntry.fmt = "absent" THEN DtNone ELSE parse_rss_date(dtEntry)
    /\ dtPc' = "parsed"
    /\ UNCHANGED dtEntry

NextDate ==
    \/ (ExtractPublishedDate /\ UNCHANGED <<mainVars, dupVars, dlVars, libVars, exVars, twVars, clVars, wkVars>>)
    \/ (ParseRssDate /\ UNCHANGED <<mainVars, dupVars, dlVars, libVars, exVars, twVars, clVars, wkVars>>)

SpecDate == InitDate /\ [][NextDate]_vars

\* C25: what either date function returns is None or a datetime in UTC; the
\* time tuple, when the entry has one, is what _extract_published_date
\* returns; a string with a numeric offset gives the UTC reading of the same
\* instant, a supported string without one gives its own reading, and a
\* string in no supported format gives None.
C25_UtcOrUnparseable ==
    dtPc \in {"extracted", "parsed"} =>
        /\ dtResult.kind # "none" => dtResult.off = 0
        /\ (dtPc = "extracted" /\ dtEntry.parsed # DtNone) => dtResult = dtEntry.parsed
        /\ (dtResult.kind # "none" /\ (dtPc = "parsed" \/ dtEntry.parsed = DtNone)) =>
              dtResult.wall = dtEntry.wall - dtEntry.off
        /\ (dtEntry.fmt \in {"unsupported", "absent"}
               /\ (dtPc = "parsed" \/ dtEntry.parsed = DtNone)) => dtResult = DtNone

(* ------------------- the weekly report: AI_News_Crawler.py ----------------- *)

MaxPerSource == 1

\* the feeds of the weekly report, by position in the list
RSS_SOURCES == 1..5

\* what one feed contributes: the entries of the last seven days appended
\* before requests.get, raise_for_status or the handling of an entry raised,
\* if it did
FetchOutcomes == [raised : BOOLEAN, recent : 0..MaxPerSource]

RECURSIVE Repeat(_, _)
Repeat(x, n) == IF n = 0 THEN <<>> ELSE <<x>> \o Repeat(x, n - 1)

\* the values generate_weekly_report returns: one string for an empty list,
\* one string when the model call raised, a (content, total_tokens) pair
\* when it answered
EmptyNotice == [kind |-> "string", text |-> "no_new_content"]
FailureNotice == [kind |-> "string", text |-> "generation_failed"]
Generated == [kind |-> "pair", text |-> "report"]
ApiOutcomes == {"answers", "raises"}

generate_weekly_report(arts, api) ==
    IF arts = <<>> THEN EmptyNotice
    ELSE IF api = "raises" THEN FailureNotice
    ELSE Generated

InitWeekly ==
    /\ AllIdle
    /\ ExIdle
    /\ TwIdle
    /\ ClIdle
    /\ DtIdle
    /\ wkPc = "fetch"
    /\ wkSrc = 1
    /\ wkArticles = <<>>
    /\ wkReport = NoReport
    /\ wkFile = NoFile

\* one pass of `for url in RSS_SOURCES` in fetch_recent_articles; an
\* exception is printed and the loop goes on
WkFetch ==
    /\ wkPc = "fetch"
    /\ wkSrc \in RSS_SOURCES
    /\ \E o \in FetchOutcomes :
          wkArticles' = wkArticles \o Repeat(wkSrc, o.recent)
    /\ wkSrc' = wkSrc + 1
    /\ UNCHANGED <<wkPc, wkReport, wkFile>>

\* articles.sort(...); return articles
WkFetched ==
    /\ wkPc = "fetch"
    /\ wkSrc \notin RSS_SOURCES
    /\ wkPc' = "generate"
    /\ UNCHANGED <<wkSrc, wkArticles, wkReport, wkFile>>

\* the call of generate_weekly_report(articles)
WkGenerate ==
    /\ wkPc = "generate"
    /\ \E api \in ApiOutcomes :
          wkReport' = generate_weekly_report(wkArticles, api)
    /\ wkPc' = "unpack"
    /\ UNCHANGED <<wkSrc, wkArticles, wkFile>>

\* `report, token_usage = ...`: a pair is unpacked; a string of more than
\* two characters raises ValueError, which nothing catches
WkUnpack ==
    /\ wkPc = "unpack"
    /\ wkPc' = IF wkReport.kind = "pair" THEN "write" ELSE "crashed"
    /\ UNCHANGED <<wkSrc, wkArticles, wkReport, wkFile>>

\* the post is written with its front matter and the report
WkWrite ==
    /\ wkPc = "write"
    /\ wkFile' = [kind |-> "post", text |-> wkReport.text]
    /\ wkPc' = "done"
    /\ UNCHANGED <<wkSrc, wkArticles, wkReport>>

NextWeekly ==
    \/ (WkFetch /\ UNCHANGED <<mainVars, dupVars, dlVars, libVars, exVars, twVars, clVars, dtVars>>)
    \/ (WkFetched /\ UNCHANGED <<mainVars, dupVars, dlVars, libVars, exVars, twVars, clVars, dtVars>>)
    \/ (WkGenerate /\ UNCHANGED <<mainVars, dupVars, dlVars, libVars, exVars, twVars, clVars, dtVars>>)
    \/ (WkUnpack /\ UNCHANGED <<mainVars, dupVars, dlVars, libVars, exVars, twVars, clVars, dtVars>>)
    \/ (WkWrite /\ UNCHANGED <<mainVars, dupVars, dlVars, libVars, exVars, twVars, clVars, dtVars>>)

SpecWeekly == InitWeekly /\ [][NextWeekly]_vars

\* C26: the weekly report script is never ended by an exception, and once
\* generate_weekly_report has returned its notice for an empty article list
\* or for a failed model call, the script goes on to write the post with
\* that notice in it.
C26_DegradedReportWritten ==
    /\ wkPc # "crashed"
    /\ wkPc = "done" => wkFile = [kind |-> "post", text |-> wkReport.text]

====
